---- MODULE Spec2Model ----
(***************************************************************************)
(* Model of Fatores_Externos/Fatores_Externos.py: one run of main(), the   *)
(* collection orchestrator.  The state is the module-level status map      *)
(* collection_status, main()'s local dictionary all_data, the parquet      *)
(* files of DATA_DIR and the position of main() and of the fetcher it is   *)
(* running.  The providers, the credential files and the disk are the      *)
(* environment: what they answer is chosen nondeterministically.           *)
(*                                                                         *)
(* A table (DataFrame) is modelled by its number of rows; 0 is the empty   *)
(* DataFrame.  A status string is modelled by a record: mark is its first  *)
(* character (the hourglass, the check mark or the cross), text the words  *)
(* after it and n the number formatted into it (records saved, HTTP code). *)
(***************************************************************************)
EXTENDS Integers, Sequences, FiniteSets, TLC

\* ------------------------------------------------------------------ bounds
\* Rows of the largest table a provider returns.  A provider that answers
\* returns a one-row table or a table of MaxRows rows.
MaxRows == 2
\* Largest number of off-nominal events of the environment in one run.  The
\* nominal event is a provider answering with a one-row table and a write
\* that succeeds; every failed request, empty payload, escaped exception,
\* larger table and failed write counts one.
MaxDeviations == 2
\* Largest number of calls of main() in one process.
MaxRuns == 2
\* Largest number of calls of log_final_checklist in a row.
MaxChecklistCalls == 2
\* Largest number of sources that are not Pendente in a status map handed to
\* log_final_checklist on its own.
MaxMarked == 3
\* Largest number of calls of save_data made by a caller other than main().
MaxSinkCalls == 2
\* Largest number of rows of a provider's payload whose rows are modelled.
MaxPayload == 3
\* Dates are 1..MaxDate (days since START_DATE).
MaxDate == 2

\* --------------------------------------------------------------- registry
SOURCES_TO_CHECK ==
    << "macro_bcb", "macro_ipea", "macro_cepea", "macro_quandl",
       "clima_inmet", "clima_chirps_gee", "clima_era5",
       "satelite_modis_ndvi", "hidro_ana" >>

Sources == { SOURCES_TO_CHECK[i] : i \in DOMAIN SOURCES_TO_CHECK }

\* The order in which main() calls the fetchers (the stubs keep no state).
FETCH_ORDER ==
    << "macro_bcb", "macro_ipea", "macro_cepea", "macro_quandl",
       "clima_inmet", "clima_era5", "clima_chirps_gee",
       "satelite_modis_ndvi", "hidro_ana" >>

\* Position of a name in a sequence of distinct names.
IndexOf(seq, s) == CHOOSE i \in DOMAIN seq : seq[i] = s

\* ----------------------------------------------------------------- status
Pendente     == [mark |-> "hourglass", text |-> "Pendente", n |-> 0]
Coletando    == [mark |-> "hourglass", text |-> "Coletando...", n |-> 0]
Sucesso(n)   == [mark |-> "check", text |-> "Sucesso (regs)", n |-> n]
Falha(text)  == [mark |-> "cross", text |-> text, n |-> 0]
FalhaHTTP(c) == [mark |-> "cross", text |-> "Falha (status_code)", n |-> c]

\* status.startswith of the check mark / of the cross
IsSuccess(st) == st.mark = "check"
IsFailure(st) == st.mark = "cross"
IsTerminal(st) == IsSuccess(st) \/ IsFailure(st)

\* A status code for which raise_for_status() raises HTTPError.
HTTPErrorCodes == {404}

\* ------------------------------------------------------------------ files
NoFile        == [state |-> "absent", rows |-> 0]
FullFile(n)   == [state |-> "written", rows |-> n]
PartialFile   == [state |-> "truncated", rows |-> 0]

\* ----------------------------------------------------------------- tables
\* The table a fetcher returns, by its rows; before any fetcher returned.
NoTable == [source |-> "", rows |-> << >>]

\* indices_agro.xlsx: absent, whole (the tables it holds, in order) or cut
\* short by a write that raised.
NoWorkbook == [state |-> "absent", tables |-> << >>]
Workbook(tables) == [state |-> "written", tables |-> tables]
PartialWorkbook == [state |-> "partial", tables |-> << >>]

VARIABLES
    pc,                 \* position of main()
    fi,                 \* index in FETCH_ORDER of the fetcher being run
    fpc,                \* position inside that fetcher
    df,                 \* the local df of fetch_macro_bcb
    si,                 \* index in all_data.items() of the save loop
    gate,               \* outcome of the credential gate and CDS client
    collection_status,  \* source name -> status
    all_data,           \* main()'s dict, in insertion order: <<[name, df]>>
    files,              \* DATA_DIR/<name>.parquet
    calls,              \* every call made, in order (what a mock would log)
    bcb_requests,       \* the sgs.get requests of fetch_macro_bcb, with results
    fetch_result,       \* source -> how its fetcher ended
    write_result,       \* source -> how df.to_parquet ended
    hist,               \* source -> the statuses assigned to it, in order
    report,             \* the status lines of the last checklist
    summary,            \* the "k de n" line of the last checklist
    dev,                \* off-nominal events so far
    exit_code,          \* << >> while the process runs, then << its exit code >>
    format_error,       \* sources whose payload lacked an expected field
    payload,            \* rows of a provider's payload, in the provider's order
    cleaned,            \* the table a fetcher made of payload
    bloco,              \* itau-asset.py: the collection block to run next
    df_coletados,       \* itau-asset.py: the tables appended so far
    indices_agro        \* itau-asset.py: the file indices_agro.xlsx

vars == << pc, fi, fpc, df, si, gate, collection_status, all_data, files,
           calls, bcb_requests, fetch_result, write_result, hist, report,
           summary, dev, exit_code,
                    format_error, payload, cleaned,
                    bloco, df_coletados, indices_agro >>

Call(op, arg) == [op |-> op, arg |-> arg]

\* ------------------------------------------------------- dict all_data
Keys(ad) == { ad[i].name : i \in DOMAIN ad }
Get(ad, s) == ad[IndexOf([i \in DOMAIN ad |-> ad[i].name], s)].df

\* ------------------------------------------------------------------- Init
Init ==
    /\ pc = "gate"
    /\ fi = 1
    /\ fpc = "call"
    /\ df = 0
    /\ si = 1
    /\ gate = "unchecked"
    /\ collection_status = [s \in Sources |-> Pendente]
    /\ all_data = << >>
    /\ files = [s \in Sources |-> NoFile]
    /\ calls = << >>
    /\ bcb_requests = << >>
    /\ fetch_result = [s \in Sources |-> "not called"]
    /\ write_result = [s \in Sources |-> "not called"]
    /\ hist = [s \in Sources |-> << >>]
    /\ report = << >>
    /\ summary = [k |-> 0, n |-> 0]
    /\ dev = 0
    /\ exit_code = << >>
    /\ format_error = {}
    /\ payload = << >>
    /\ cleaned = NoTable
    /\ bloco = 1
    /\ df_coletados = << >>
    /\ indices_agro = NoWorkbook

\* Assignment d[k] = v to a dict: a key that d does not have is added.
Put(d, k, v) == [x \in DOMAIN d \cup {k} |-> IF x = k THEN v ELSE d[x]]

\* Assignment collection_status[s] = st, with its record in hist.
SetStatus(s, st) ==
    /\ collection_status' = Put(collection_status, s, st)
    /\ hist' = Put(hist, s, Append(IF s \in DOMAIN hist THEN hist[s] ELSE << >>, st))

\* The environment may deviate k more times.
Spend(k) == dev + k <= MaxDeviations /\ dev' = dev + k
RowCost(n) == IF n > 1 THEN 1 ELSE 0
TableSizes == {1, MaxRows}


\* ---------------------------------------------------- the credential gate
\* main(), lines 704-713: where main() goes after check_and_setup_credentials
\* returned ("ok"), called sys.exit ("SystemExit") or raised ("Exception").
AfterGateProceeds(outcome) == "cds"
AfterGate(outcome) == IF outcome = "ok" THEN "cds" ELSE "checklist"

\* main(), lines 716-724: after cdsapi.Client() returned or raised.
AfterCDSRechecks(outcome) == IF outcome = "ok" THEN "gate" ELSE "checklist"
AfterCDS(outcome) == IF outcome = "ok" THEN "fetch" ELSE "checklist"

check_and_setup_credentials ==
    /\ pc = "gate"
    /\ calls' = Append(calls, Call("gate", ""))
    /\ \/ \* every check passes: returns logins
          /\ gate' = "ok"
          /\ pc' = AfterGate("ok")
       \/ \* logins.py missing or unimportable, placeholder keys, .cdsapirc
          \* not writable, GEE not initialised: sys.exit(1)
          /\ gate' = "SystemExit"
          /\ pc' = AfterGate("SystemExit")
       \/ \* any other exception inside the gate
          /\ gate' = "Exception"
          /\ pc' = AfterGate("Exception")
    /\ UNCHANGED << fi, fpc, df, si, collection_status, all_data, files,
                    bcb_requests, fetch_result, write_result, hist, report,
                    summary, dev, exit_code,
                    format_error, payload, cleaned,
                    bloco, df_coletados, indices_agro >>

init_cds_client ==
    /\ pc = "cds"
    /\ calls' = Append(calls, Call("cds", ""))
    /\ \/ /\ pc' = AfterCDS("ok")
          /\ gate' = gate
       \/ /\ pc' = AfterCDS("Exception")
          /\ gate' = "CDSFail"
    /\ UNCHANGED << fi, fpc, df, si, collection_status, all_data, files,
                    bcb_requests, fetch_result, write_result, hist, report,
                    summary, dev, exit_code,
                    format_error, payload, cleaned,
                    bloco, df_coletados, indices_agro >>

\* --------------------------------------------------------------- fetchers
\* main() is at the try statement of fetcher s, which is at position p.
At(s, p) == pc = "fetch" /\ FETCH_ORDER[fi] = s /\ fpc = p

\* main(), lines 737-769: the statement after the i-th try statement.
MainNextSavesEarly(i) == [pc |-> "presave", fi |-> i]
MainNext(i) ==
    IF i < Len(FETCH_ORDER) THEN [pc |-> "fetch", fi |-> i + 1]
                            ELSE [pc |-> "presave", fi |-> i]

\* main(), the except clause of the i-th try statement: log and go on.
MainExceptRetries(i) == [pc |-> "fetch", fi |-> i]
MainExceptBreaks(i) == [pc |-> "presave", fi |-> i]
MainExcept(i) == MainNext(i)

\* Lines 251, 293, 359, 397, 424, 474, 514, 566, 615: the source_name under
\* which the fetcher that main() stores under key s keeps its status.
SourceNameOfFunction(s) ==
    IF s = "clima_era5" THEN "clima_era5_openmeteo" ELSE s
SourceName(s) == s

\* The first statements of every fetcher: the status becomes Coletando.
Enter(s) ==
    /\ At(s, "call")
    /\ calls' = Append(calls, Call("fetch", s))
    /\ SetStatus(SourceName(s), Coletando)
    /\ fpc' = "body"
    /\ UNCHANGED << pc, fi, df, si, gate, all_data, files, bcb_requests,
                    fetch_result, write_result, report, summary, dev, exit_code,
                    format_error, payload, cleaned,
                    bloco, df_coletados, indices_agro >>

\* return table: main() stores it, all_data[s] = table.
Return(s, table) ==
    /\ all_data' = Append(all_data, [name |-> s, df |-> table])
    /\ fetch_result' = [fetch_result EXCEPT ![s] = "returned"]
    /\ fpc' = "call"
    /\ pc' = MainNext(fi).pc
    /\ fi' = MainNext(fi).fi
    /\ UNCHANGED << si, gate, files, calls, write_result, report, summary,
                    exit_code, payload, cleaned,
                    bloco, df_coletados, indices_agro >>

\* An exception leaves the fetcher: main() stores nothing.
Raise(s) ==
    /\ fetch_result' = [fetch_result EXCEPT ![s] = "raised"]
    /\ fpc' = "call"
    /\ pc' = MainExcept(fi).pc
    /\ fi' = MainExcept(fi).fi
    /\ UNCHANGED << si, gate, files, calls, write_result, report, summary,
                    all_data, collection_status, hist, exit_code,
                    format_error, payload, cleaned,
                    bloco, df_coletados, indices_agro >>

\* The provider answered and the fetcher returns a table of n >= 1 rows.
Ok(s) ==
    \E n \in TableSizes :
        /\ Spend(RowCost(n))
        /\ Return(s, n)
        /\ UNCHANGED << collection_status, hist, df, bcb_requests, format_error >>

\* The fetcher records the failure st and returns pd.DataFrame().
Fail(s, st) ==
    /\ Spend(1)
    /\ SetStatus(s, st)
    /\ Return(s, 0)
    /\ UNCHANGED << df, bcb_requests, format_error >>

\* The fetcher returns a table that its own cleaning (dropna) left empty,
\* without recording a failure.
EmptyOk(s) ==
    /\ Spend(1)
    /\ Return(s, 0)
    /\ UNCHANGED << collection_status, hist, df, bcb_requests, format_error >>

\* The payload lacks a field the fetcher tests for: it records the failure
\* st and returns pd.DataFrame().
FormatFail(s, st) ==
    /\ Spend(1)
    /\ SetStatus(s, st)
    /\ Return(s, 0)
    /\ format_error' = format_error \cup {s}
    /\ UNCHANGED << df, bcb_requests >>

\* The payload lacks a column the fetcher does not test for: reindex fills
\* it with NaN and dropna(how='all') keeps the n >= 1 rows that have a value
\* in another column.
PartialOk(s) ==
    \E n \in TableSizes :
        /\ Spend(1 + RowCost(n))
        /\ Return(s, n)
        /\ format_error' = format_error \cup {s}
        /\ UNCHANGED << collection_status, hist, df, bcb_requests >>

\* The payload lacks every value column: reindex fills them with NaN and
\* dropna(how='all') leaves no row.
PartialEmpty(s) ==
    /\ Spend(1)
    /\ Return(s, 0)
    /\ format_error' = format_error \cup {s}
    /\ UNCHANGED << collection_status, hist, df, bcb_requests >>

\* An exception raised inside an except clause of the fetcher (he.request or
\* he.response is None) escapes it.
Escapes(s) ==
    /\ Spend(1)
    /\ Raise(s)
    /\ UNCHANGED << df, bcb_requests >>


\* ----------------------------------------------------- fetch_macro_bcb
\* What sgs.get can hand back: a table, possibly empty, or no DataFrame.
None == -1

\* One sgs.get request of fetch_macro_bcb and how it ended.
Request(fmt, result, rows) == [fmt |-> fmt, result |-> result, rows |-> rows]

\* Lines 279-281: the status after the second request, by whether it raised.
BcbRetryStatusAlways(raised, cur) == Falha("Falha (Erro Formato Data)")
BcbRetryStatus(raised, cur) ==
    IF raised THEN Falha("Falha (Erro Formato Data)") ELSE cur

\* Lines 256-284: where the fetcher goes after the first request, by how it
\* ended: only a ValueError leads to the second request.
BcbNextStepRetriesAll(result) ==
    IF result \in {"ValueError", "Exception"} THEN "retry" ELSE "tail"
BcbNextStepRetriesEmpty(result) ==
    IF result \in {"ValueError", "empty"} THEN "retry" ELSE "tail"
BcbNextStep(result) == IF result = "ValueError" THEN "retry" ELSE "tail"

\* Lines 286-288: the status after the emptiness test at the end.
BcbTailStatusInverted(table, cur) ==
    IF table # 0 /\ cur = Coletando THEN Falha("Falha (Dados Vazios)") ELSE cur
BcbTailStatus(table, cur) ==
    IF table = 0 /\ cur = Coletando THEN Falha("Falha (Dados Vazios)") ELSE cur

fetch_macro_bcb ==
    \/ Enter("macro_bcb")
    \/ \* lines 256-265, 282-284: the request with YYYY-MM-DD dates
       /\ At("macro_bcb", "body")
       /\ \/ \E n \in {0} \cup TableSizes :
                /\ Spend(IF n = 0 THEN 1 ELSE RowCost(n))
                /\ df' = n
                /\ bcb_requests' =
                       Append(bcb_requests, Request("YYYY-MM-DD", "table", n))
                /\ fpc' = BcbNextStep(IF n = 0 THEN "empty" ELSE "table")
                /\ UNCHANGED << collection_status, hist >>
          \/ /\ Spend(1)
             /\ df' = None
             /\ bcb_requests' =
                    Append(bcb_requests, Request("YYYY-MM-DD", "None", 0))
             /\ fpc' = BcbNextStep("None")
             /\ UNCHANGED << collection_status, hist >>
          \/ /\ Spend(1)
             /\ bcb_requests' =
                    Append(bcb_requests, Request("YYYY-MM-DD", "ValueError", 0))
             /\ fpc' = BcbNextStep("ValueError")
             /\ UNCHANGED << df, collection_status, hist >>
          \/ /\ Spend(1)
             /\ bcb_requests' =
                    Append(bcb_requests, Request("YYYY-MM-DD", "Exception", 0))
             /\ SetStatus("macro_bcb", Falha("Falha (Erro API)"))
             /\ fpc' = BcbNextStep("Exception")
             /\ UNCHANGED df
       /\ UNCHANGED << pc, fi, si, gate, all_data, files, calls, fetch_result,
                       write_result, report, summary, exit_code,
                    format_error, payload, cleaned,
                    bloco, df_coletados, indices_agro >>
    \/ \* lines 267-281: the request with DD/MM/YYYY dates
       /\ At("macro_bcb", "retry")
       /\ \/ \E n \in {0} \cup TableSizes :
                /\ Spend(IF n = 0 THEN 1 ELSE RowCost(n))
                /\ df' = n
                /\ bcb_requests' =
                       Append(bcb_requests, Request("DD/MM/YYYY", "table", n))
                /\ IF BcbRetryStatus(FALSE, collection_status["macro_bcb"])
                        = collection_status["macro_bcb"]
                   THEN UNCHANGED << collection_status, hist >>
                   ELSE SetStatus("macro_bcb", BcbRetryStatus(FALSE,
                                      collection_status["macro_bcb"]))
          \/ \* except Exception as e_alt: the classes a mock can raise are
             \* ValueError again and any other one (a connection error)
             \E class \in {"ValueError", "Exception"} :
                /\ Spend(1)
                /\ bcb_requests' =
                       Append(bcb_requests, Request("DD/MM/YYYY", class, 0))
                /\ SetStatus("macro_bcb", BcbRetryStatus(TRUE,
                                              collection_status["macro_bcb"]))
                /\ UNCHANGED df
       /\ fpc' = "tail"
       /\ UNCHANGED << pc, fi, si, gate, all_data, files, calls, fetch_result,
                       write_result, report, summary, exit_code,
                    format_error, payload, cleaned,
                    bloco, df_coletados, indices_agro >>
    \/ \* lines 286-289: df.empty, the status of an empty table, return df
       /\ At("macro_bcb", "tail")
       /\ df' = 0
       /\ UNCHANGED << dev, bcb_requests >>
       /\ IF df = None
          THEN \* AttributeError: None has no attribute empty
               Raise("macro_bcb")
          ELSE /\ Return("macro_bcb", df)
               /\ UNCHANGED format_error
               /\ IF BcbTailStatus(df, collection_status["macro_bcb"])
                       = collection_status["macro_bcb"]
                  THEN UNCHANGED << collection_status, hist >>
                  ELSE SetStatus("macro_bcb",
                           BcbTailStatus(df, collection_status["macro_bcb"]))

\* ---------------------------------------------------- fetch_macro_ipea
fetch_macro_ipea ==
    \/ Enter("macro_ipea")
    \/ /\ At("macro_ipea", "body")
       /\ \/ Fail("macro_ipea", Falha("Falha (Biblioteca?)"))
          \/ Fail("macro_ipea", Falha("Falha (Dados Vazios)"))
          \/ FormatFail("macro_ipea", Falha("Falha (Formato Inesperado)"))
          \/ Fail("macro_ipea", Falha("Falha (Erro API)"))
          \/ Ok("macro_ipea")

\* --------------------------------------------------- fetch_macro_cepea
fetch_macro_cepea ==
    \/ Enter("macro_cepea")
    \/ /\ At("macro_cepea", "body")
       /\ \/ Fail("macro_cepea", Falha("Falha (Dados Vazios)"))
          \/ \E c \in HTTPErrorCodes : Fail("macro_cepea", FalhaHTTP(c))
          \/ Escapes("macro_cepea")
          \/ Fail("macro_cepea", Falha("Falha (Erro API)"))
          \/ Ok("macro_cepea")

\* -------------------------------------------------- fetch_macro_quandl
fetch_macro_quandl ==
    \/ Enter("macro_quandl")
    \/ /\ At("macro_quandl", "body")
       /\ \/ Fail("macro_quandl", Falha("Falha (Dados Vazios)"))
          \/ Fail("macro_quandl", Falha("Falha (Permissao 403)"))
          \/ Fail("macro_quandl", Falha("Falha (Erro API)"))
          \/ Ok("macro_quandl")

\* --------------------------------------------------- fetch_clima_inmet
fetch_clima_inmet ==
    \/ Enter("clima_inmet")
    \/ /\ At("clima_inmet", "body")
       /\ \/ Fail("clima_inmet", Falha("Falha (Dados Vazios)"))
          \/ FormatFail("clima_inmet", Falha("Falha (Formato Inesperado)"))
          \/ PartialOk("clima_inmet")
          \/ PartialEmpty("clima_inmet")
          \/ \E c \in HTTPErrorCodes : Fail("clima_inmet", FalhaHTTP(c))
          \/ Escapes("clima_inmet")
          \/ Fail("clima_inmet", Falha("Falha (Erro API)"))
          \/ EmptyOk("clima_inmet")
          \/ Ok("clima_inmet")

\* ------------------------------------------ fetch_clima_era5_openmeteo
\* The test of line 520 is never true: START_DATE is three years before
\* END_DATE and the buffered end seven days before it.
fetch_clima_era5_openmeteo ==
    \/ Enter("clima_era5")
    \/ /\ At("clima_era5", "body")
       /\ \/ Fail("clima_era5", Falha("Falha (Dados Vazios API)"))
          \/ \E c \in HTTPErrorCodes : Fail("clima_era5", FalhaHTTP(c))
          \/ Escapes("clima_era5")
          \/ Fail("clima_era5", Falha("Falha (Timeout)"))
          \/ Fail("clima_era5", Falha("Falha (Erro API)"))
          \/ Ok("clima_era5")

\* ---------------------------------------------- fetch_clima_chirps_gee
fetch_clima_chirps_gee ==
    \/ Enter("clima_chirps_gee")
    \/ /\ At("clima_chirps_gee", "body")
       /\ \/ Fail("clima_chirps_gee", Falha("Falha (Dados Vazios GEE)"))
          \/ Fail("clima_chirps_gee", Falha("Falha (Dados Invalidos GEE)"))
          \/ Fail("clima_chirps_gee", Falha("Falha (Erro GEE)"))
          \/ EmptyOk("clima_chirps_gee")
          \/ Ok("clima_chirps_gee")

\* ----------------------------------------- fetch_satelite_modis_ndvi_gee
fetch_satelite_modis_ndvi_gee ==
    \/ Enter("satelite_modis_ndvi")
    \/ /\ At("satelite_modis_ndvi", "body")
       /\ \/ Fail("satelite_modis_ndvi", Falha("Falha (Dados Vazios GEE)"))
          \/ Fail("satelite_modis_ndvi", Falha("Falha (Dados Invalidos GEE)"))
          \/ Fail("satelite_modis_ndvi", Falha("Falha (Erro GEE)"))
          \/ EmptyOk("satelite_modis_ndvi")
          \/ Ok("satelite_modis_ndvi")

\* ------------------------------------------------ fetch_hidrologia_ana
\* The ImportError clause of line 662 is never entered: the only import that
\* can fail is inside pd.read_xml, whose exceptions line 630 catches.
fetch_hidrologia_ana ==
    \/ Enter("hidro_ana")
    \/ /\ At("hidro_ana", "body")
       /\ \/ Fail("hidro_ana", Falha("Falha (XML Invalido)"))
          \/ Fail("hidro_ana", Falha("Falha (Dados Vazios XML)"))
          \/ FormatFail("hidro_ana", Falha("Falha (Formato Inesperado)"))
          \/ Fail("hidro_ana", Falha("Falha (Sem Dados Nivel)"))
          \/ Fail("hidro_ana", Falha("Falha (Timeout)"))
          \/ \E c \in HTTPErrorCodes : Fail("hidro_ana", FalhaHTTP(c))
          \/ Escapes("hidro_ana")
          \/ Fail("hidro_ana", Falha("Falha (Erro API)"))
          \/ EmptyOk("hidro_ana")
          \/ Ok("hidro_ana")


\* ------------------------------------------------- main(): pre-save pass
\* Lines 788-789: no usable table was stored for s.
Missing(ad, s) == s \notin Keys(ad) \/ Get(ad, s) = None \/ Get(ad, s) = 0

\* Lines 785-792: the status the pass leaves for one source.
PreSaveStatusOverwrites(cur, missing) ==
    IF missing THEN Falha("Falha (Erro Coleta/Vazio)") ELSE cur
PreSaveStatus(cur, missing) ==
    IF (cur = Coletando \/ cur = Pendente) /\ missing
    THEN IF ~IsFailure(cur) THEN Falha("Falha (Erro Coleta/Vazio)") ELSE cur
    ELSE cur

\* hist after a pass that takes the status map from old to new.
Logged(old, new) ==
    [s \in DOMAIN hist |-> IF new[s] # old[s] THEN Append(hist[s], new[s])
                                               ELSE hist[s]]

pre_save_pass ==
    /\ pc = "presave"
    /\ collection_status' =
           [s \in DOMAIN collection_status |->
               IF s \in Sources
               THEN PreSaveStatus(collection_status[s], Missing(all_data, s))
               ELSE collection_status[s]]
    /\ hist' = Logged(collection_status, collection_status')
    /\ si' = 1
    /\ pc' = IF all_data = << >> THEN "checklist" ELSE "save"
    /\ UNCHANGED << fi, fpc, df, gate, all_data, files, calls, bcb_requests,
                    fetch_result, write_result, report, summary, dev, exit_code,
                    format_error, payload, cleaned,
                    bloco, df_coletados, indices_agro >>

\* -------------------------------------------------------------- save_data
\* Line 234: the table is worth writing.
HasRowsAlways(table) == TRUE
HasRowsNotNone(table) == table # None
HasRows(table) == table # None /\ table # 0

\* Line 238: the status of a written table.
SavedStatusOffByOne(table) == Sucesso(table - 1)
SavedStatus(table) == Sucesso(table)

\* Lines 239-241: the status after df.to_parquet raised.
WriteErrorStatusAsFetch == Falha("Falha (Erro API)")
WriteErrorStatus == Falha("Falha ao Salvar")

\* Lines 243-245: the status save_data leaves for a source without table.
EmptySaveStatusOverwrites(cur) == Falha("Falha (Dados Vazios/Erro)")
EmptySaveStatus(cur) ==
    IF cur = Coletando \/ cur = Pendente
    THEN Falha("Falha (Dados Vazios/Erro)") ELSE cur

\* Lines 795-800: where main() is after the i-th item of all_data.items().
SaveNext(i) ==
    IF i < Len(all_data) THEN [pc |-> "save", si |-> i + 1]
                         ELSE [pc |-> "checklist", si |-> i + 1]

\* Lines 239-241 and 795-797: where main() is after a write error at item i.
AfterWriteErrorPropagates(i) == [pc |-> "crashed", si |-> i]
AfterWriteError(i) == SaveNext(i)

\* Line 243: collection_status.get(name, Pendente).
StatusOf(name) ==
    IF name \in DOMAIN collection_status THEN collection_status[name]
                                         ELSE Pendente

\* Lines 231-245: the body of save_data(df, name), for any table and name.
SaveData(table, name) ==
    /\ calls' = Append(calls, Call("save", name))
    /\ IF HasRows(table)
       THEN \/ \* df.to_parquet(filename) returns
               /\ files' = Put(files, name, FullFile(table))
               /\ SetStatus(name, SavedStatus(table))
               /\ write_result' = Put(write_result, name, "ok")
               /\ dev' = dev
            \/ \* df.to_parquet(filename) raises, before or while it
               \* writes the file
               /\ Spend(1)
               /\ \/ files' = files
                  \/ files' = Put(files, name, PartialFile)
               /\ SetStatus(name, WriteErrorStatus)
               /\ write_result' = Put(write_result, name, "error")
       ELSE /\ IF EmptySaveStatus(StatusOf(name)) = StatusOf(name)
               THEN UNCHANGED << collection_status, hist >>
               ELSE SetStatus(name, EmptySaveStatus(StatusOf(name)))
            /\ UNCHANGED << files, write_result, dev >>

\* One iteration of the loop of lines 795-797: save_data(df, name) for a
\* name of the checklist; after the last one main() goes on to line 800.
save_data ==
    /\ pc = "save"
    /\ si <= Len(all_data)
    /\ LET name  == all_data[si].name
           table == all_data[si].df
       IN  /\ name \in Sources
           /\ SaveData(table, name)
           /\ IF HasRows(table) /\ write_result'[name] = "error"
              THEN /\ si' = AfterWriteError(si).si
                   /\ pc' = AfterWriteError(si).pc
              ELSE /\ si' = SaveNext(si).si
                   /\ pc' = SaveNext(si).pc
    /\ UNCHANGED << fi, fpc, df, gate, all_data, bcb_requests, fetch_result,
                    report, summary, exit_code,
                    format_error, payload, cleaned,
                    bloco, df_coletados, indices_agro >>

\* --------------------------------------------------- log_final_checklist
\* Lines 805-809: successful_saves.
CountTerminal(st) == Cardinality({ s \in DOMAIN st : IsTerminal(st[s]) })
CountNotFailure(st) == Cardinality({ s \in DOMAIN st : ~IsFailure(st[s]) })
CountSuccess(st) == Cardinality({ s \in DOMAIN st : IsSuccess(st[s]) })

\* Lines 816-818: every status still Pendente or Coletando becomes a failure.
ReconcileEverything(st) ==
    [s \in DOMAIN st |->
        IF s \in Sources /\ ~IsSuccess(st[s])
        THEN Falha("Falha (Nao concluido/Erro)") ELSE st[s]]
ReconcileColetandoOnly(st) ==
    [s \in DOMAIN st |->
        IF s \in Sources /\ st[s] = Coletando
        THEN Falha("Falha (Nao concluido/Erro)") ELSE st[s]]
Reconcile(st) ==
    [s \in DOMAIN st |->
        IF s \in Sources /\ (st[s] = Coletando \/ st[s] = Pendente)
        THEN Falha("Falha (Nao concluido/Erro)") ELSE st[s]]

\* Lines 821-823: one line per source of SOURCES_TO_CHECK, in its order.
ChecklistLinesInCallOrder(st) ==
    [i \in DOMAIN FETCH_ORDER |->
        [source |-> FETCH_ORDER[i], status |-> st[FETCH_ORDER[i]]]]
ChecklistLines(st) ==
    [i \in DOMAIN SOURCES_TO_CHECK |->
        [source |-> SOURCES_TO_CHECK[i], status |-> st[SOURCES_TO_CHECK[i]]]]

\* Lines 803-834: the body of log_final_checklist.
RunChecklist ==
    /\ calls' = Append(calls, Call("checklist", ""))
    /\ summary' = [k |-> CountSuccess(collection_status),
                   n |-> Len(SOURCES_TO_CHECK)]
    /\ collection_status' = Reconcile(collection_status)
    /\ hist' = Logged(collection_status, collection_status')
    /\ report' = ChecklistLines(collection_status')
    /\ UNCHANGED << fi, fpc, df, si, gate, all_data, files, bcb_requests,
                    fetch_result, write_result, dev, format_error, payload,
                    cleaned,
                    bloco, df_coletados, indices_agro >>

\* Lines 837-838 with 704-724: main() returns normally on every path, after
\* a failed gate too (it catches SystemExit), so the interpreter ends with
\* this exit code.
ExitCode(outcome) == 0

\* main() calls log_final_checklist (lines 708, 712, 723, 800) and returns;
\* the process ends.
log_final_checklist ==
    /\ pc = "checklist"
    /\ RunChecklist
    /\ pc' = "done"
    /\ exit_code' = << ExitCode(gate) >>

\* ------------------------------------------------------------------- Next
Next ==
    \/ check_and_setup_credentials
    \/ init_cds_client
    \/ fetch_macro_bcb
    \/ fetch_macro_ipea
    \/ fetch_macro_cepea
    \/ fetch_macro_quandl
    \/ fetch_clima_inmet
    \/ fetch_clima_era5_openmeteo
    \/ fetch_clima_chirps_gee
    \/ fetch_satelite_modis_ndvi_gee
    \/ fetch_hidrologia_ana
    \/ pre_save_pass
    \/ save_data
    \/ log_final_checklist

Spec == Init /\ [][Next]_vars

\* main() is one sequential thread: it always takes its next step.
FairSpec == Spec /\ WF_vars(Next)

\* ---------------------------------------------- main() called once more
\* A caller in the same process calls main() again after it returned.  The
\* module-level collection_status (line 138) and the files stay as they are;
\* all_data is a new dict (line 730).  The records of what the run did start
\* afresh; calls keeps the whole process.
main_again ==
    /\ pc = "done"
    /\ Cardinality({ i \in DOMAIN calls : calls[i].op = "checklist" }) < MaxRuns
    /\ pc' = "gate"
    /\ fi' = 1
    /\ fpc' = "call"
    /\ df' = 0
    /\ si' = 1
    /\ gate' = "unchecked"
    /\ all_data' = << >>
    /\ bcb_requests' = << >>
    /\ fetch_result' = [s \in Sources |-> "not called"]
    /\ write_result' = [s \in Sources |-> "not called"]
    /\ hist' = [s \in Sources |-> << >>]
    /\ exit_code' = << >>
    /\ format_error' = {}
    /\ UNCHANGED << collection_status, files, calls, report, summary, dev,
                    payload, cleaned,
                    bloco, df_coletados, indices_agro >>

RerunNext == Next \/ main_again

RerunSpec == Init /\ [][RerunNext]_vars

\* ------------------------------------- log_final_checklist on its own
\* Statuses a source can have when log_final_checklist is called.
StatusSamples ==
    { Coletando, Sucesso(1), Sucesso(MaxRows), Falha("Falha (Erro API)") }

\* log_final_checklist is about to be called with a status map in which the
\* sources of marked have any of the statuses above and the others are
\* Pendente.
ChecklistInit ==
    /\ pc = "checklist"
    /\ fi = 1
    /\ fpc = "call"
    /\ df = 0
    /\ si = 1
    /\ gate = "unchecked"
    /\ \E marked \in SUBSET Sources :
          /\ Cardinality(marked) <= MaxMarked
          /\ \E f \in [marked -> StatusSamples] :
                collection_status =
                    [s \in Sources |-> IF s \in marked THEN f[s] ELSE Pendente]
    /\ all_data = << >>
    /\ files = [s \in Sources |-> NoFile]
    /\ calls = << >>
    /\ bcb_requests = << >>
    /\ fetch_result = [s \in Sources |-> "not called"]
    /\ write_result = [s \in Sources |-> "not called"]
    /\ hist = [s \in Sources |-> << >>]
    /\ report = << >>
    /\ summary = [k |-> 0, n |-> 0]
    /\ dev = 0
    /\ exit_code = << >>
    /\ format_error = {}
    /\ payload = << >>
    /\ cleaned = NoTable
    /\ bloco = 1
    /\ df_coletados = << >>
    /\ indices_agro = NoWorkbook

\* log_final_checklist is called again right after it returned.
log_final_checklist_again ==
    /\ pc = "done"
    /\ Cardinality({ i \in DOMAIN calls : calls[i].op = "checklist" })
           < MaxChecklistCalls
    /\ RunChecklist
    /\ UNCHANGED << pc, exit_code >>

ChecklistNext == log_final_checklist \/ log_final_checklist_again

ChecklistSpec == ChecklistInit /\ [][ChecklistNext]_vars

\* ------------------------------------- a run over the files of an earlier run
\* The file an earlier run of the script left for a source: a whole table,
\* of a number of rows that no table of this run has.
StaleFile == FullFile(MaxRows + 1)

\* The script is started in a fresh process (line 138) while DATA_DIR holds
\* the files of an earlier run in which every source was saved.
StaleInit ==
    /\ pc = "gate"
    /\ fi = 1
    /\ fpc = "call"
    /\ df = 0
    /\ si = 1
    /\ gate = "unchecked"
    /\ collection_status = [s \in Sources |-> Pendente]
    /\ all_data = << >>
    /\ files = [s \in Sources |-> StaleFile]
    /\ calls = << >>
    /\ bcb_requests = << >>
    /\ fetch_result = [s \in Sources |-> "not called"]
    /\ write_result = [s \in Sources |-> "not called"]
    /\ hist = [s \in Sources |-> << >>]
    /\ report = << >>
    /\ summary = [k |-> 0, n |-> 0]
    /\ dev = 0
    /\ exit_code = << >>
    /\ format_error = {}
    /\ payload = << >>
    /\ cleaned = NoTable
    /\ bloco = 1
    /\ df_coletados = << >>
    /\ indices_agro = NoWorkbook

StaleSpec == StaleInit /\ [][Next]_vars

\* ------------------------------------------------- a user interrupt
\* Ctrl-C while a fetcher is running raises KeyboardInterrupt inside it.
\* KeyboardInterrupt is no Exception: neither the except clauses of the
\* fetcher nor those of main() (lines 737-769) catch it and lines 837-838
\* have no handler, so it ends main() and the process (exit status of SIGINT).
keyboard_interrupt ==
    /\ pc = "fetch"
    /\ fpc # "call"
    /\ pc' = "interrupted"
    /\ fetch_result' = [fetch_result EXCEPT ![FETCH_ORDER[fi]] = "interrupted"]
    /\ exit_code' = << 130 >>
    /\ UNCHANGED << fi, fpc, df, si, gate, collection_status, all_data, files,
                    calls, bcb_requests, write_result, hist, report, summary,
                    dev, format_error, payload, cleaned,
                    bloco, df_coletados, indices_agro >>

InterruptNext == Next \/ keyboard_interrupt

InterruptSpec == Init /\ [][InterruptNext]_vars

\* ------------------------------------------------- save_data on its own
\* A name that is not in SOURCES_TO_CHECK: the source of the stub
\* fetch_clima_noaa_stub.
Unregistered == "clima_noaa"

\* The module has been imported; a caller is about to call save_data.
SinkInit ==
    /\ pc = "sink"
    /\ fi = 1
    /\ fpc = "call"
    /\ df = 0
    /\ si = 1
    /\ gate = "unchecked"
    /\ collection_status = [s \in Sources |-> Pendente]
    /\ all_data = << >>
    /\ files = [s \in Sources |-> NoFile]
    /\ calls = << >>
    /\ bcb_requests = << >>
    /\ fetch_result = [s \in Sources |-> "not called"]
    /\ write_result = [s \in Sources |-> "not called"]
    /\ hist = [s \in Sources |-> << >>]
    /\ report = << >>
    /\ summary = [k |-> 0, n |-> 0]
    /\ dev = 0
    /\ exit_code = << >>
    /\ format_error = {}
    /\ payload = << >>
    /\ cleaned = NoTable
    /\ bloco = 1
    /\ df_coletados = << >>
    /\ indices_agro = NoWorkbook

\* save_data(df, name) is called with any table and any name.
save_data_call ==
    /\ pc = "sink"
    /\ Len(calls) < MaxSinkCalls
    /\ \E name \in Sources \cup {Unregistered} :
          \E table \in {None, 0} \cup TableSizes : SaveData(table, name)
    /\ UNCHANGED << pc, fi, fpc, df, si, gate, all_data, bcb_requests,
                    fetch_result, report, summary, exit_code,
                    format_error, payload, cleaned,
                    bloco, df_coletados, indices_agro >>

SinkNext == save_data_call

SinkSpec == SinkInit /\ [][SinkNext]_vars

\* --------------------------------- the tables the fetchers make of payloads
\* A row of a payload: its date and its value, NaN when the value is missing
\* or no number.
NaN == -2
Rows == [date : 1..MaxDate, value : {NaN, 1}]
Payloads == UNION { [1..n -> Rows] : n \in 0..MaxPayload }

HasValue(row) == row.value # NaN

\* df.sort_index(): rows in nondecreasing order of the date; rows of one date
\* stay, all of them.
RECURSIVE Insert(_, _)
Insert(row, sorted) ==
    IF sorted = << >> \/ row.date <= Head(sorted).date
    THEN << row >> \o sorted
    ELSE << Head(sorted) >> \o Insert(row, Tail(sorted))

RECURSIVE sort_index(_)
sort_index(rows) ==
    IF rows = << >> THEN << >>
    ELSE Insert(Head(rows), sort_index(Tail(rows)))

\* fetch_macro_cepea, lines 380-382: to_datetime, set_index('date') and the
\* price column; the rows stay as the provider sent them.
CepeaTable(rows) == rows

\* fetch_clima_inmet, lines 453-457: set_index('data'), reindex, to_numeric,
\* dropna(how='all'); the rows that keep a value stay in the provider's order.
InmetTable(rows) == SelectSeq(rows, HasValue)

\* fetch_clima_chirps_gee, lines 494-504: features without value are left out,
\* then set_index('date').sort_index(), to_numeric and dropna().
ChirpsTable(rows) == SelectSeq(sort_index(SelectSeq(rows, HasValue)), HasValue)

FetcherTable(s, rows) ==
    IF s = "macro_cepea" THEN CepeaTable(rows)
    ELSE IF s = "clima_inmet" THEN InmetTable(rows)
    ELSE ChirpsTable(rows)

\* A provider has answered with a payload of at least one row.
TableInit ==
    /\ pc = "payload"
    /\ fi = 1
    /\ fpc = "call"
    /\ df = 0
    /\ si = 1
    /\ gate = "ok"
    /\ collection_status = [s \in Sources |-> Pendente]
    /\ all_data = << >>
    /\ files = [s \in Sources |-> NoFile]
    /\ calls = << >>
    /\ bcb_requests = << >>
    /\ fetch_result = [s \in Sources |-> "not called"]
    /\ write_result = [s \in Sources |-> "not called"]
    /\ hist = [s \in Sources |-> << >>]
    /\ report = << >>
    /\ summary = [k |-> 0, n |-> 0]
    /\ dev = 0
    /\ exit_code = << >>
    /\ format_error = {}
    /\ payload \in Payloads \ { << >> }
    /\ cleaned = NoTable
    /\ bloco = 1
    /\ df_coletados = << >>
    /\ indices_agro = NoWorkbook

\* The fetcher of s makes its table of the payload and returns it.
return_table ==
    /\ pc = "payload"
    /\ \E s \in {"macro_cepea", "clima_inmet", "clima_chirps_gee"} :
          cleaned' = [source |-> s, rows |-> FetcherTable(s, payload)]
    /\ pc' = "returned"
    /\ UNCHANGED << fi, fpc, df, si, gate, collection_status, all_data, files,
                    calls, bcb_requests, fetch_result, write_result, hist,
                    report, summary, dev, exit_code, format_error, payload,
                    bloco, df_coletados, indices_agro >>

TableNext == return_table

TableSpec == TableInit /\ [][TableNext]_vars

\* ------------------------------------------------------------ itau-asset.py
\* The six collection blocks 2.1 to 2.6, by the index each collects, in the
\* order of the script.
INDICES == << "FAO Food Price Index", "IAGRO B3 (ETF Proxy)",
              "S&P GSCI Agriculture (ETF Proxy)", "IPCA (Proxy CEPEA)",
              "ICC Agro (Proxy IBGE)", "ICB Proxy (Soja Futuro CME)" >>

\* The script starts with no table collected and no file written.
ItauInit ==
    /\ pc = "coleta"
    /\ fi = 1
    /\ fpc = "call"
    /\ df = 0
    /\ si = 1
    /\ gate = "unchecked"
    /\ collection_status = [s \in Sources |-> Pendente]
    /\ all_data = << >>
    /\ files = [s \in Sources |-> NoFile]
    /\ calls = << >>
    /\ bcb_requests = << >>
    /\ fetch_result = [s \in Sources |-> "not called"]
    /\ write_result = [s \in Sources |-> "not called"]
    /\ hist = [s \in Sources |-> << >>]
    /\ report = << >>
    /\ summary = [k |-> 0, n |-> 0]
    /\ dev = 0
    /\ exit_code = << >>
    /\ format_error = {}
    /\ payload = << >>
    /\ cleaned = NoTable
    /\ bloco = 1
    /\ df_coletados = << >>
    /\ indices_agro = NoWorkbook

\* Where the script goes on after the except clause of block i.
AfterBlockErrorStops(i) == Len(INDICES) + 1
AfterBlockError(i) == i + 1

\* One collection block: the request, the standardisation and the append are
\* inside one try, so the block appends its table (padronizar_df_* returns an
\* empty table on a payload it cannot use) or raises and appends nothing.
coleta ==
    /\ pc = "coleta"
    /\ bloco \in DOMAIN INDICES
    /\ calls' = Append(calls, Call("coleta", INDICES[bloco]))
    /\ \/ \E n \in {0} \cup TableSizes :
             /\ df_coletados' = Append(df_coletados,
                                       [indice |-> INDICES[bloco], rows |-> n])
             /\ bloco' = bloco + 1
       \/ /\ UNCHANGED df_coletados
          /\ bloco' = AfterBlockError(bloco)
    /\ pc' = IF bloco' \in DOMAIN INDICES THEN "coleta" ELSE "consolidacao"
    /\ UNCHANGED << fi, fpc, df, si, gate, collection_status, all_data, files,
                    bcb_requests, fetch_result, write_result, hist, report,
                    summary, dev, exit_code, format_error, payload, cleaned,
                    indices_agro >>

AnyNotEmpty(tables) == \E i \in DOMAIN tables : tables[i].rows # 0
NotEmpty(t) == t.rows # 0
Validos(tables) == SelectSeq(tables, NotEmpty)

\* The exit code of a script that ends by itself, and of one that an
\* uncaught exception ends.
ExitEnd == 0
ExitUncaught == 1

\* The consolidation: with a non-empty table, the non-empty tables are
\* concatenated and written by to_excel, which no try encloses; with none,
\* only the failure line is printed.
consolidacao ==
    /\ pc = "consolidacao"
    /\ IF AnyNotEmpty(df_coletados)
       THEN \/ /\ indices_agro' = Workbook(Validos(df_coletados))
               /\ pc' = "fim"
               /\ exit_code' = << ExitEnd >>
            \/ /\ indices_agro' \in {NoWorkbook, PartialWorkbook}
               /\ pc' = "erro"
               /\ exit_code' = << ExitUncaught >>
       ELSE /\ UNCHANGED indices_agro
            /\ pc' = "fim"
            /\ exit_code' = << ExitEnd >>
    /\ UNCHANGED << fi, fpc, df, si, gate, collection_status, all_data, files,
                    calls, bcb_requests, fetch_result, write_result, hist,
                    report, summary, dev, format_error, payload, cleaned,
                    bloco, df_coletados >>

ItauNext == coleta \/ consolidacao

ItauSpec == ItauInit /\ [][ItauNext]_vars


\* ================================================================= claims
Done == pc = "done"
GateFailed == gate \in {"SystemExit", "Exception", "CDSFail"}
CallsOf(op) == { i \in DOMAIN calls : calls[i].op = op }
Fetched(s) == \E i \in CallsOf("fetch") : calls[i].arg = s
Saved(s) == \E i \in CallsOf("save") : calls[i].arg = s
ReturnedEmpty(s) == fetch_result[s] = "returned" /\ Get(all_data, s) = 0
EverFailed(s) == \E i \in DOMAIN hist[s] : IsFailure(hist[s][i])
EverSucceeded(s) == \E i \in DOMAIN hist[s] : IsSuccess(hist[s][i])
FetchesBefore(a, b) == IndexOf(FETCH_ORDER, a) < IndexOf(FETCH_ORDER, b)

\* C1: whenever main() has returned (after a failed gate, a failed CDS client
\* or a complete run), every source of SOURCES_TO_CHECK has a status and it
\* is terminal: a Success or a Failure, never Pendente or Coletando.
C1_AllTerminalAtReturn ==
    Done => /\ DOMAIN collection_status = Sources
            /\ \A s \in Sources : IsTerminal(collection_status[s])

\* main() returned after sys.exit in the gate: every source was Pendente.
C1_Witness ==
    /\ Done
    /\ gate = "SystemExit"
    /\ \A s \in Sources : hist[s] = << Falha("Falha (Nao concluido/Erro)") >>

\* C2: once the credential gate has failed (sys.exit, an exception, or no CDS
\* client), no fetcher and no save_data is ever called, main() only goes on
\* to the checklist, and when it has returned the checklist has one line per
\* source and every status is a Failure.
C2_GateFailureStopsRun ==
    GateFailed =>
        /\ CallsOf("fetch") = {} /\ CallsOf("save") = {}
        /\ pc \in {"checklist", "done"}
        /\ Done => /\ CallsOf("checklist") # {}
                   /\ Len(report) = Len(SOURCES_TO_CHECK)
                   /\ \A s \in Sources : IsFailure(collection_status[s])
                   /\ \A i \in DOMAIN report : IsFailure(report[i].status)

\* main() returned after the CDS client could not be initialised.
C2_Witness ==
    /\ Done
    /\ gate = "CDSFail"
    /\ Len(report) = Len(SOURCES_TO_CHECK)

\* C3: when main() has returned, for every source a whose fetcher raised, a
\* ends in Failure, every source b called after a was still attempted, and
\* if b returned n rows that were written, b ends in Success(n); the summary
\* counts exactly the sources that ended in Success.
C3_FailureIsolation ==
    (Done /\ gate = "ok") =>
        /\ \A a \in Sources :
              fetch_result[a] = "raised" =>
                 /\ IsFailure(collection_status[a])
                 /\ \A b \in Sources :
                       FetchesBefore(a, b) =>
                          /\ Fetched(b)
                          /\ fetch_result[b] # "not called"
                          /\ (/\ fetch_result[b] = "returned"
                              /\ Get(all_data, b) > 0
                              /\ write_result[b] = "ok")
                             => collection_status[b]
                                    = Sucesso(Get(all_data, b))
        /\ summary = [k |-> CountSuccess(collection_status),
                      n |-> Len(SOURCES_TO_CHECK)]

\* fetch_macro_bcb raised, the eight later sources were written, the last
\* one with MaxRows rows: 8 of 9.
C3_Witness ==
    /\ Done
    /\ fetch_result["macro_bcb"] = "raised"
    /\ IsFailure(collection_status["macro_bcb"])
    /\ collection_status["hidro_ana"] = Sucesso(MaxRows)
    /\ summary = [k |-> 8, n |-> 9]

\* The second request of fetch_macro_bcb returned a table with rows.
BcbFallbackSucceeded ==
    /\ Len(bcb_requests) = 2
    /\ bcb_requests[1].result = "ValueError"
    /\ bcb_requests[2].result = "table"
    /\ bcb_requests[2].rows > 0

\* C4: if the first request of fetch_macro_bcb raised ValueError and the
\* second returned n > 0 rows, then unless the write fails no Failure is ever
\* assigned to macro_bcb, and once the table is written and main() has
\* returned its status is Success(n).
C4_FallbackSuccess ==
    BcbFallbackSucceeded =>
        /\ write_result["macro_bcb"] # "error" => ~EverFailed("macro_bcb")
        /\ (Done /\ write_result["macro_bcb"] = "ok") =>
               collection_status["macro_bcb"]
                   = Sucesso(bcb_requests[2].rows)

C4_Witness ==
    /\ Done
    /\ BcbFallbackSucceeded
    /\ bcb_requests[2].rows = MaxRows
    /\ write_result["macro_bcb"] = "ok"
    /\ hist["macro_bcb"] = << Coletando, Sucesso(MaxRows) >>

\* C5: a source whose fetcher returned an empty table without raising is
\* never given a Success, no file is written for it, and when main() has
\* returned its status is a Failure.
C5_EmptyIsFailure ==
    \A s \in Sources :
        ReturnedEmpty(s) =>
            /\ ~EverSucceeded(s)
            /\ files[s] = NoFile
            /\ write_result[s] = "not called"
            /\ Done => IsFailure(collection_status[s])

\* fetch_clima_inmet returned a table emptied by dropna, status Coletando;
\* save_data was called with it.
C5_Witness ==
    /\ Done
    /\ ReturnedEmpty("clima_inmet")
    /\ Saved("clima_inmet")
    /\ hist["clima_inmet"] = << Coletando, Falha("Falha (Erro Coleta/Vazio)") >>

\* C6: after a failed write of a non-empty table the source's status is the
\* write-error Failure, which no source without a failed write has, and
\* save_data never changes all_data.
C6_WriteError ==
    /\ [](\A s \in Sources :
            write_result[s] = "error" =>
               /\ collection_status[s] = Falha("Falha ao Salvar")
               /\ Get(all_data, s) > 0
               /\ \A t \in Sources :
                     write_result[t] # "error" =>
                        /\ collection_status[t] # collection_status[s]
                        /\ \A i \in DOMAIN hist[t] :
                              hist[t][i] # collection_status[s])
    /\ [][pc = "save" => all_data' = all_data]_vars

C6_Witness ==
    /\ Done
    /\ write_result["macro_ipea"] = "error"
    /\ Get(all_data, "macro_ipea") > 0
    /\ files["macro_ipea"] = PartialFile
    /\ \E t \in Sources : IsFailure(collection_status[t])
                          /\ write_result[t] = "not called"

\* C7: a status that is a Success or a Failure is never changed by any step.
C7_TerminalAbsorbing ==
    [][\A s \in Sources :
          IsTerminal(collection_status[s]) =>
             collection_status'[s] = collection_status[s]]_vars

\* fetch_macro_ipea recorded its own failure; the pre-save pass, save_data
\* and the checklist ran after it.
C7_Witness ==
    /\ Done
    /\ gate = "ok"
    /\ Saved("macro_ipea")
    /\ hist["macro_ipea"] = << Coletando, Falha("Falha (Dados Vazios)") >>
    /\ collection_status["macro_ipea"] = Falha("Falha (Dados Vazios)")

\* C8: the checklist has exactly one line per source, in the order of
\* SOURCES_TO_CHECK, each with the source's final status, whatever the order
\* in which the fetchers ran.
C8_ChecklistInRegistryOrder ==
    Done =>
        /\ Len(report) = Len(SOURCES_TO_CHECK)
        /\ \A i \in DOMAIN report :
              /\ report[i].source = SOURCES_TO_CHECK[i]
              /\ report[i].status = collection_status[SOURCES_TO_CHECK[i]]

\* clima_era5 was fetched before clima_chirps_gee and is listed after it.
C8_Witness ==
    /\ Done
    /\ \E i, j \in CallsOf("fetch") :
          /\ i < j
          /\ calls[i].arg = "clima_era5"
          /\ calls[j].arg = "clima_chirps_gee"
    /\ report[6].source = "clima_chirps_gee"
    /\ report[7].source = "clima_era5"

\* C9: the fetchers are called in the order of SOURCES_TO_CHECK: of two
\* fetcher calls, the earlier is of the source listed first.
C9_FetchInRegistryOrder ==
    \A i, j \in CallsOf("fetch") :
        i < j => IndexOf(SOURCES_TO_CHECK, calls[i].arg)
                     < IndexOf(SOURCES_TO_CHECK, calls[j].arg)

\* C10: whatever the fetchers and the writes do, main() reaches
\* log_final_checklist, calls it exactly once and returns.
C10_AlwaysReturnsThroughChecklist ==
    /\ <>[](Done /\ Cardinality(CallsOf("checklist")) = 1)
    /\ [](Cardinality(CallsOf("checklist")) <= 1)

\* A fetcher raised and a write failed, and main() returned.
C10_Witness ==
    /\ Done
    /\ \E s \in Sources : fetch_result[s] = "raised"
    /\ \E s \in Sources : write_result[s] = "error"
    /\ \E s \in Sources : ReturnedEmpty(s) \/ IsSuccess(collection_status[s])


\* C11: when main() has returned, the process has ended with a non-zero exit
\* code if the credential gate failed and with exit code zero if it passed.
C11_GateFailureExitsNonZero ==
    Done => IF GateFailed THEN exit_code # << 0 >> ELSE exit_code = << 0 >>

\* C12: every call of main() starts with all sources Pendente, so that a
\* status of an earlier call cannot show up in a later checklist.
C12_EveryRunStartsPendente ==
    pc = "gate" => \A s \in Sources : collection_status[s] = Pendente

\* C13: log_final_checklist leaves collection_status as it found it.
C13_ChecklistLeavesStatus ==
    [][pc = "checklist" => collection_status' = collection_status]_vars

\* C13, amended: log_final_checklist leaves every Success and every Failure
\* as it found it and turns every other status into a Failure.
C13_ChecklistOnlyReconciles ==
    [][pc = "checklist" =>
          \A s \in Sources :
             /\ IsTerminal(collection_status[s]) =>
                   collection_status'[s] = collection_status[s]
             /\ ~IsTerminal(collection_status[s]) =>
                   IsFailure(collection_status'[s])]_vars

\* The credential gate raised: the checklist found every source Pendente and
\* left every one of them with the Failure of a source that was not concluded.
C13_Witness ==
    /\ Done
    /\ gate = "Exception"
    /\ \A s \in Sources :
          /\ hist[s] = << Falha("Falha (Nao concluido/Erro)") >>
          /\ collection_status[s] = Falha("Falha (Nao concluido/Erro)")

ChecklistCalls == Cardinality(CallsOf("checklist"))

\* C14: a call of log_final_checklist that follows another one prints the
\* same lines and the same count, and leaves the status map of the first.
C14_ChecklistTwice ==
    [][(pc = "done" /\ calls' # calls) =>
          /\ report' = report
          /\ summary' = summary
          /\ collection_status' = collection_status]_vars

\* The second call has returned; the first one found a Success, a Coletando
\* and Pendente sources.
C14_Witness ==
    /\ ChecklistCalls = 2
    /\ summary.k = 1
    /\ \E s \in Sources : hist[s] = << >> /\ IsFailure(collection_status[s])
    /\ \E s, t \in Sources :
          /\ hist[s] = << Falha("Falha (Nao concluido/Erro)") >>
          /\ hist[t] = << Falha("Falha (Nao concluido/Erro)") >>
          /\ s # t

\* C15: in the summary line, n is the number of registered sources and k the
\* number of sources whose status after the reconciliation is a Success.
C15_SummaryCounts ==
    ChecklistCalls >= 1 =>
        /\ summary.n = Cardinality(Sources)
        /\ summary.k =
               Cardinality({ s \in Sources : collection_status[s].mark = "check" })
        /\ summary.k =
               Cardinality({ i \in DOMAIN report : report[i].status.mark = "check" })
        /\ 0 <= summary.k /\ summary.k <= summary.n

\* Three sources had a Success, the six others were Pendente and were
\* reconciled after the count.
C15_Witness ==
    /\ ChecklistCalls = 1
    /\ summary = [k |-> MaxMarked, n |-> 9]
    /\ Cardinality({ s \in Sources :
                       hist[s] = << Falha("Falha (Nao concluido/Erro)") >> })
           = 9 - MaxMarked

\* C16: a call of save_data leaves the file of every source as it was, or
\* replaces it by the whole new table and records a Success.
C16_NoPartialWrite ==
    [][pc = "save" =>
          \A s \in Sources :
             \/ files'[s] = files[s]
             \/ /\ files'[s].state = "written"
                /\ IsSuccess(collection_status'[s])]_vars

\* C17: the credential gate is called once, and it has returned before the
\* first fetcher is called.
C17_GateOnceBeforeFetch ==
    /\ Cardinality(CallsOf("gate")) = (IF pc = "gate" THEN 0 ELSE 1)
    /\ \A i \in CallsOf("fetch") :
          /\ gate = "ok"
          /\ \A j \in CallsOf("gate") : j < i

C17_Witness ==
    /\ Done
    /\ Cardinality(CallsOf("fetch")) = Len(FETCH_ORDER)
    /\ calls[1] = Call("gate", "")
    /\ calls[3] = Call("fetch", "macro_bcb")

CallsFor(op, s) == { i \in CallsOf(op) : calls[i].arg = s }

\* C18: in one run the fetcher of a source is called at most once and
\* save_data at most once for it, also after a failure.
C18_NoRetry ==
    \A s \in Sources :
        /\ Cardinality(CallsFor("fetch", s)) <= 1
        /\ Cardinality(CallsFor("save", s)) <= 1

\* A fetcher raised and a write failed; nothing was called twice.
C18_Witness ==
    /\ Done
    /\ fetch_result["macro_cepea"] = "raised"
    /\ write_result["macro_ipea"] = "error"
    /\ Cardinality(CallsOf("fetch")) = 9
    /\ Cardinality(CallsOf("save")) = 8

\* C19: save_data is not called before the fetcher of every source has
\* returned or raised.
C19_FetchThenSave ==
    /\ CallsOf("save") # {} =>
          \A s \in Sources : fetch_result[s] # "not called"
    /\ \A i \in CallsOf("fetch") : \A j \in CallsOf("save") : i < j

C19_Witness ==
    /\ pc = "save"
    /\ si = 2
    /\ Cardinality(CallsOf("save")) = 1
    /\ \E s \in Sources : fetch_result[s] = "raised"

\* C20: when the first request of fetch_macro_bcb returns an empty table
\* without error, the fetcher makes the second request and returns its table.
C20_EmptyFirstAttemptFallsBack ==
    (/\ fetch_result["macro_bcb"] = "returned"
     /\ bcb_requests[1].result = "table"
     /\ bcb_requests[1].rows = 0)
    => /\ Len(bcb_requests) = 2
       /\ Get(all_data, "macro_bcb") = bcb_requests[2].rows

\* C20, amended: fetch_macro_bcb makes the second request if and only if the
\* first raised ValueError.  It returns the table of the first request if
\* that returned one (also an empty one), else the table of the second
\* request if that returned one, else an empty table.
C20_FallbackOnlyOnValueError ==
    fetch_result["macro_bcb"] = "returned" =>
        /\ Len(bcb_requests) \in {1, 2}
        /\ Len(bcb_requests) = 2 <=> bcb_requests[1].result = "ValueError"
        /\ Get(all_data, "macro_bcb") =
              IF bcb_requests[1].result = "table"
              THEN bcb_requests[1].rows
              ELSE IF Len(bcb_requests) = 2
                      /\ bcb_requests[2].result = "table"
                   THEN bcb_requests[2].rows
                   ELSE 0

\* The first request returned an empty table: one request, Dados Vazios.
C20_Witness ==
    /\ Done
    /\ bcb_requests = << Request("YYYY-MM-DD", "table", 0) >>
    /\ Get(all_data, "macro_bcb") = 0
    /\ collection_status["macro_bcb"] = Falha("Falha (Dados Vazios)")


\* The class of error a Failure of fetch_macro_bcb names: line 281 names
\* the date format, which is what ValueError means at line 267, line 284 an
\* error of the API, which is any other exception.
ReportedClass(st) ==
    IF st = Falha("Falha (Erro Formato Data)") THEN "ValueError"
    ELSE IF st = Falha("Falha (Erro API)") THEN "Exception"
    ELSE "none"

\* C21: when both requests of fetch_macro_bcb raised, the Failure recorded
\* for macro_bcb names the class of the error of the second request.
C21_LastErrorReported ==
    (/\ fetch_result["macro_bcb"] = "returned"
     /\ Len(bcb_requests) = 2
     /\ bcb_requests[2].result \in {"ValueError", "Exception"})
    => ReportedClass(collection_status["macro_bcb"]) = bcb_requests[2].result

\* C22: fetch_macro_bcb makes at most two requests; it makes the second one
\* if and only if the first raised ValueError; after any other exception of
\* the first request there is one request and macro_bcb has a Failure.
C22_RetryOnlyOnValueError ==
    /\ Len(bcb_requests) <= 2
    /\ Len(bcb_requests) = 2 => bcb_requests[1].result = "ValueError"
    /\ (/\ fetch_result["macro_bcb"] \in {"returned", "raised"}
        /\ bcb_requests[1].result = "ValueError") => Len(bcb_requests) = 2
    /\ (/\ bcb_requests # << >>
        /\ bcb_requests[1].result = "Exception")
       => /\ Len(bcb_requests) = 1
          /\ IsFailure(collection_status["macro_bcb"])

\* The first request raised a connection error: one request, Erro API.
C22_Witness ==
    /\ Done
    /\ bcb_requests = << Request("YYYY-MM-DD", "Exception", 0) >>
    /\ collection_status["macro_bcb"] = Falha("Falha (Erro API)")
    /\ hist["macro_bcb"] = << Coletando, Falha("Falha (Erro API)") >>

\* C23: a status changes only from Pendente to Coletando, from Coletando to
\* a Success or a Failure, or from Pendente to a Failure in the pre-save pass
\* or in the reconciliation of the checklist.
C23_Lifecycle ==
    [][\A s \in Sources :
          collection_status'[s] # collection_status[s] =>
             \/ /\ collection_status[s] = Pendente
                /\ collection_status'[s] = Coletando
             \/ /\ collection_status[s] = Coletando
                /\ IsTerminal(collection_status'[s])
             \/ /\ collection_status[s] = Pendente
                /\ IsFailure(collection_status'[s])
                /\ pc \in {"presave", "checklist"}]_vars

\* One source went to a Success, one was failed by its fetcher and one by
\* the pre-save pass.
C23_Witness ==
    /\ Done
    /\ hist["macro_bcb"] = << Coletando, Sucesso(1) >>
    /\ hist["macro_quandl"] = << Coletando, Falha("Falha (Permissao 403)") >>
    /\ hist["clima_chirps_gee"] = << Coletando, Falha("Falha (Erro Coleta/Vazio)") >>

\* C24: the keys of collection_status are the names of SOURCES_TO_CHECK, in
\* every state.
C24_KeysAreRegistry ==
    DOMAIN collection_status = Sources

\* Fetchers, the pre-save pass, save_data and the checklist have all written
\* statuses.
C24_Witness ==
    /\ Done
    /\ write_result["macro_bcb"] = "ok"
    /\ write_result["macro_ipea"] = "error"
    /\ collection_status["hidro_ana"] = Falha("Falha (Erro Coleta/Vazio)")
    /\ \A s \in Sources : Len(hist[s]) = 2

\* The fetcher of t returned an empty table and left the status Coletando;
\* the pre-save pass gave it its Failure.
EmptyWithoutError(t) ==
    /\ ReturnedEmpty(t)
    /\ hist[t] = << Coletando, PreSaveStatus(Coletando, TRUE) >>

\* C25: a source whose fetcher raised into main() ends with a Failure that
\* differs from the Failure of a source whose fetcher returned an empty table
\* without error.
C25_UnexpectedIsDistinguished ==
    Done =>
      \A s \in Sources :
         fetch_result[s] = "raised" =>
            /\ IsFailure(collection_status[s])
            /\ \A t \in Sources :
                  EmptyWithoutError(t) =>
                     collection_status[s] # collection_status[t]

\* C26: a source whose payload lacked an expected field ends with a Failure
\* and without a file.
C26_FormatErrorIsFailure ==
    Done =>
      \A s \in format_error :
         /\ IsFailure(collection_status[s])
         /\ files[s] = NoFile

\* C27: after an interrupt during the k-th fetcher no other fetcher was
\* called, and every non-empty table that a fetcher had returned is in its
\* file and has its line in the checklist.
C27_InterruptKeepsPartialResults ==
    pc = "interrupted" =>
      /\ Cardinality(CallsOf("fetch")) = fi
      /\ \A s \in Sources :
            (fetch_result[s] = "returned" /\ Get(all_data, s) > 0) =>
               /\ files[s] = FullFile(Get(all_data, s))
               /\ \E i \in DOMAIN report : report[i].source = s

\* C28: the dates of the table a fetcher returns are strictly increasing,
\* whatever the order and the repetitions of the payload.
C28_StrictlyIncreasingDates ==
    pc = "returned" =>
      \A i \in 1..(Len(cleaned.rows) - 1) :
         cleaned.rows[i].date < cleaned.rows[i + 1].date

\* C29: a call of save_data with a name that is not registered creates no
\* status entry and writes no file.
C29_UnknownNameRejected ==
    \A i \in CallsOf("save") :
       calls[i].arg \notin Sources =>
          /\ calls[i].arg \notin DOMAIN collection_status
          /\ calls[i].arg \notin DOMAIN files

\* C30: at the end of a run a source has a Success if and only if its
\* fetcher returned a non-empty table and the write of that table completed;
\* the number in the Success is the number of rows of that table.
C30_SuccessIffFetchedAndWritten ==
    Done =>
      \A s \in Sources :
         /\ IsSuccess(collection_status[s]) <=>
               /\ fetch_result[s] = "returned"
               /\ Get(all_data, s) > 0
               /\ write_result[s] = "ok"
         /\ IsSuccess(collection_status[s]) =>
               collection_status[s] = Sucesso(Get(all_data, s))

\* A table was written, the write of another one failed and a third
\* fetcher returned no row.
C30_Witness ==
    /\ Done
    /\ collection_status["macro_bcb"] = Sucesso(1)
    /\ files["macro_bcb"] = FullFile(1)
    /\ write_result["macro_ipea"] = "error"
    /\ \E s \in Sources : ReturnedEmpty(s)


\* C31: when a fetcher returns, the status of its source is Coletando or a
\* Failure, and with a Failure the table returned is empty; so save_data is
\* never called with a non-empty table for a source that has a Failure.
C31_FetcherReturnsColetandoOrFailure ==
    [][/\ \A s \in Sources :
             (fetch_result[s] # "returned" /\ fetch_result'[s] = "returned") =>
                /\ \/ collection_status'[s] = Coletando
                   \/ IsFailure(collection_status'[s])
                /\ IsFailure(collection_status'[s]) => Get(all_data', s) = 0
       /\ (pc = "save" /\ calls' # calls) =>
             (HasRows(all_data[si].df) =>
                 ~IsFailure(collection_status[all_data[si].name]))]_vars

\* fetch_macro_bcb returned the table of its second request with Coletando,
\* fetch_macro_ipea an empty table with a Failure, and save_data got both.
C31_Witness ==
    /\ Done
    /\ Len(bcb_requests) = 2
    /\ hist["macro_bcb"] = << Coletando, Sucesso(1) >>
    /\ hist["macro_ipea"] = << Coletando, Falha("Falha (Erro API)") >>
    /\ Get(all_data, "macro_ipea") = 0
    /\ Cardinality(CallsOf("save")) = 9


\* The fetcher of s has returned a table with rows in this run.
ReturnedRows(s) == fetch_result[s] = "returned" /\ Get(all_data, s) > 0

\* C32: for a source whose fetcher failed, raised or returned an empty table
\* the run writes nothing: the file an earlier run left for it stays as it
\* was, also next to a Failure.
C32_NoWriteWithoutRows ==
    \A s \in Sources :
       ~ReturnedRows(s) =>
          /\ files[s] = StaleFile
          /\ write_result[s] = "not called"

\* At the end of a run one fetcher had raised and one had failed: both have
\* a Failure and the file of the earlier run, while another file was
\* rewritten.
C32_Witness ==
    /\ Done
    /\ fetch_result["macro_cepea"] = "raised"
    /\ IsFailure(collection_status["macro_cepea"])
    /\ files["macro_cepea"] = StaleFile
    /\ collection_status["hidro_ana"] = Falha("Falha (Timeout)")
    /\ files["hidro_ana"] = StaleFile
    /\ files["macro_bcb"] = FullFile(1)


\* ------------------------------------------------------------------- C33
BlocksRun == [i \in DOMAIN calls |-> calls[i].arg]
CollectionOver == pc \in {"consolidacao", "fim", "erro"}
ScriptOver == pc \in {"fim", "erro"}

\* C33, amended: every one of the six collection blocks runs, in order,
\* whatever the earlier blocks did. When the script ends by itself,
\* indices_agro.xlsx is written if and only if a collected table is
\* non-empty, and it holds exactly the non-empty tables; when the
\* consolidation raises (to_excel is in no try) a table was non-empty and the
\* file is not written whole. With every table empty the file is never
\* written.
C33_IsolatedBlocksWriteUnlessRaised ==
    /\ CollectionOver => BlocksRun = INDICES
    /\ pc = "fim" =>
          /\ indices_agro.state = "written" <=> AnyNotEmpty(df_coletados)
          /\ indices_agro.state = "written" =>
                /\ indices_agro.tables = SelectSeq(df_coletados, NotEmpty)
                /\ \A i \in DOMAIN indices_agro.tables :
                      indices_agro.tables[i].rows # 0
    /\ pc = "erro" =>
          /\ AnyNotEmpty(df_coletados)
          /\ indices_agro.state # "written"
    /\ ~AnyNotEmpty(df_coletados) => indices_agro = NoWorkbook

\* The first block raised, a later block appended an empty table, and the
\* file holds the two non-empty tables only.
C33_Witness ==
    /\ pc = "fim"
    /\ Len(df_coletados) = 3
    /\ df_coletados[1].indice = INDICES[2]
    /\ df_coletados[2].rows = 0
    /\ df_coletados[3].indice = INDICES[6]
    /\ indices_agro = Workbook(<< df_coletados[1], df_coletados[3] >>)

\* C33: every block runs, and once the script is over the file
\* is written if and only if a collected table is non-empty, holding only
\* the non-empty tables.
C33_WrittenIffAnyNotEmpty ==
    /\ CollectionOver => BlocksRun = INDICES
    /\ ScriptOver =>
          /\ indices_agro.state = "written" <=> AnyNotEmpty(df_coletados)
          /\ \A i \in DOMAIN indices_agro.tables :
                indices_agro.tables[i].rows # 0
====
